---- MODULE Spec2Model ----
(***************************************************************************)
(* A model of mlb_pred: the table initializer and the ingestor of          *)
(* mlbpred/DataIngest.py and the model driver of mlbpred/Model.py, run     *)
(* one after the other against one DuckDB file and one MLB API.            *)
(*                                                                         *)
(* A varchar is a sequence of character codes (a digit is its own value),  *)
(* so that int -> varchar -> int conversions, lexicographic ORDER BY and   *)
(* LIKE '%..%' are computed, not assumed.                                  *)
(***************************************************************************)
EXTENDS Integers, Sequences, FiniteSets, TLC

VARIABLES
    api,            \* the responses of the MLB API (fixed for a behaviour)
    today,          \* date.today()
    tables,         \* names of the tables of the DB file, in creation order
    seasons,        \* rows of table seasons (primary key season_id)
    teams,          \* rows of table teams (primary key season_id, team_id)
    schedule,       \* rows of table schedule, in insertion order (no key)
    scores,         \* rows of table scores, in insertion order (no key)
    pc,             \* position of the script that is running
    con,            \* state of the connection of the object that ran last
    exc,            \* exception that ended the last run ("none" if none)
    season_list,    \* Ingestor.season_list
    idx,            \* position of the running for loop in its list
    games_filtered, \* _score: the games to fetch
    games_stored,   \* _score: game ids found in scores when the call started
    http,           \* the API requests made by the running Ingestor call
    obj,            \* class of the object that ran last
    caller,         \* "run", or "direct" for a method called on its own
    season,         \* Model.season
    mod_path,       \* Model.mod_path
    stan_ok,        \* whether the engine accepts the file at mod_path
    files,          \* the files the running Model.run has written
    df,             \* _stanify_data: the result of the query
    fit,            \* Model.fit: <<>> or <<the summary of the sampler>>
    est,            \* the rows of the estimates CSV
    plot,           \* the rows of the data frame that is plotted
    first_run       \* <<rows of the DB after the first completed Ingestor.run>>

dbvars  == <<tables, seasons, teams, schedule, scores>>
ingvars == <<season_list, idx, games_filtered, games_stored, http, first_run>>
modvars == <<season, mod_path, stan_ok, files, df, fit, est, plot>>
who     == <<obj, caller>>
vars    == <<api, today, dbvars, pc, con, exc, who, ingvars, modvars>>

----------------------------------------------------------------------------
(* Bounds of the model.                                                    *)

\* Days of a season's calendar: 1 pre-season, 2..LastDay-1 regular season,
\* LastDay post-season.
LastDay == 4

\* Largest number of runs a team scores in a box score.
MaxScore == 6

(* Constants of the program.                                               *)

\* cast(schedule.season_id as integer) >= 2019
FirstScoredSeason == 2019

----------------------------------------------------------------------------
(* Varchar values and their conversions.                                   *)

RECURSIVE IntToStr(_)
\* str(int) / cast(int as varchar): the decimal digits, most significant first.
IntToStr(n) ==
    IF n < 10 THEN <<n>> ELSE IntToStr(n \div 10) \o <<n % 10>>

RECURSIVE StrToInt(_)
\* cast(varchar as integer) of a string of digits.
StrToInt(s) ==
    IF s = <<>> THEN 0
    ELSE 10 * StrToInt(SubSeq(s, 1, Len(s) - 1)) + s[Len(s)]

\* varchar comparison: lexicographic by character, a prefix sorts first.
StrLess(s, t) ==
    \E i \in 1..(Len(t)) :
        /\ i <= Len(s) + 1
        /\ \A j \in 1..(i - 1) : s[j] = t[j]
        /\ \/ i = Len(s) + 1
           \/ (i <= Len(s) /\ s[i] < t[i])

\* s like '%p%'
LikeContains(s, p) ==
    \E i \in 0..(Len(s) - Len(p)) : SubSeq(s, i + 1, i + Len(p)) = p

\* A date, and date <= date.
Date(y, d) == [year |-> y, day |-> d]
DateLE(a, b) == a.year < b.year \/ (a.year = b.year /\ a.day <= b.day)

\* The elements of a sequence.
Range(s) == {s[i] : i \in 1..Len(s)}

\* The orders in which a query without ORDER BY may return the set S.
RECURSIVE Orders(_)
Orders(S) ==
    IF S = {} THEN {<<>>}
    ELSE UNION {{<<x>> \o t : t \in Orders(S \ {x})} : x \in S}

----------------------------------------------------------------------------
(* The MLB API (statsapi.get): the responses the endpoints may give.  Only  *)
(* the fields that some statement reads back are kept: a team's name, a     *)
(* game's doubleHeader flag and league records are inserted and never read. *)

\* Team ids as the API gives them (integers); "9" sorts after "10" and "108"
\* as a varchar.  UnknownTeam plays games and is in no teams response.
TeamIds == {9, 10, 108}
UnknownTeam == 108 + 51
Abbreviation(id) ==
    CASE id = 9   -> <<78, 89, 89>>
      [] id = 10  -> <<66, 79, 83>>
      [] OTHER    -> <<76, 65, 65>>

\* A season that no seasons response lists.
StraySeason == FirstScoredSeason - 2

SeasonsResponses ==
    { {FirstScoredSeason},
      {FirstScoredSeason - 1, FirstScoredSeason},
      {FirstScoredSeason, FirstScoredSeason + 1} }

\* One element of the "seasons" list of the seasons endpoint.
ApiSeason(y) ==
    [ seasonId               |-> IntToStr(y),
      regularSeasonStartDate |-> Date(y, 2),
      regularSeasonEndDate   |-> Date(y, LastDay - 1) ]

\* The teams endpoint for season y: the teams of the season, or the same
\* with one team carrying another season.
ApiTeam(y, id) == [season |-> y, id |-> id, abbreviation |-> Abbreviation(id)]
TeamsResponses(y) ==
    { {ApiTeam(y, id) : id \in TeamIds},
      {ApiTeam(y, id) : id \in TeamIds \ {9}} \cup {ApiTeam(StraySeason, 9)} }

\* The schedule endpoint for season y, flattened to its games in response
\* order.  <<>> is a response without dates.
GamePk(y, k) == (y % 100) * 10 + k
ApiGame(s, date, pk, away, home) ==
    [season |-> IntToStr(s), date |-> date, gamePk |-> pk, away |-> away, home |-> home]
FullSchedule(y, s) ==
    << ApiGame(y, Date(y, 1), GamePk(y, 1), 9, 10),
       ApiGame(y, Date(y, 2), GamePk(y, 2), 10, 108),
       ApiGame(y, Date(y, LastDay - 1), GamePk(y, 2), 10, 108),
       ApiGame(s, Date(y, LastDay - 1), GamePk(y, 3), UnknownTeam, 9),
       ApiGame(y, Date(y, LastDay), GamePk(y, 4), 108, 9),
       ApiGame(y, Date(y, 2), GamePk(y, 5), 108, 9) >>
ScheduleResponses(y) ==
    { <<>>, FullSchedule(y, y), FullSchedule(y, StraySeason) }

\* The game_linescore endpoint: the "teams" part of the response.  A game
\* that has no runs recorded has no "runs" key.
LineScore(pk) ==
    CASE pk % 10 = 1 -> [home |-> [runs |-> MaxScore], away |-> [runs |-> 0]]
      [] pk % 10 = 2 -> IF (pk \div 10) % 2 = 0
                        THEN [home |-> [hits |-> 0], away |-> [hits |-> 0]]
                        ELSE [home |-> [runs |-> 1], away |-> [runs |-> 3]]
      [] pk % 10 = 3 -> [home |-> [runs |-> 2], away |-> [runs |-> 2]]
      [] pk % 10 = 5 -> [home |-> [runs |-> MaxScore - 1], away |-> [runs |-> MaxScore - 2]]
      [] OTHER       -> [home |-> [runs |-> 0], away |-> [runs |-> MaxScore]]

ApiResponses ==
    UNION { [ seasons  : {ys},
              teams    : {f \in [ys -> UNION {TeamsResponses(y) : y \in ys}] :
                            \A y \in ys : f[y] \in TeamsResponses(y)},
              schedule : {f \in [ys -> UNION {ScheduleResponses(y) : y \in ys}] :
                            \A y \in ys : f[y] \in ScheduleResponses(y)} ]
            : ys \in SeasonsResponses }

TodayOptions ==
    { Date(FirstScoredSeason, LastDay), Date(FirstScoredSeason + 1, 2) }

----------------------------------------------------------------------------
(* The DuckDB file.                                                        *)

TableNames == {"seasons", "teams", "schedule", "scores"}

Exists(t) == t \in Range(tables)

\* "create table t (... foreign key ... references r ...)": the catalog
\* rejects a name that exists and a reference to a table that does not.
CanCreate(t, refs) == ~Exists(t) /\ \A r \in refs : Exists(r)

\* primary key (season_id) of seasons
SeasonsKeyOk(rows) ==
    /\ \A r \in rows : \A q \in seasons : q.season_id # r.season_id
    /\ \A r, q \in rows : r.season_id = q.season_id => r = q

\* A table without the foreign key.
SeasonRefOk_unchecked(rows) == TRUE

\* foreign key (season_id) references seasons(season_id)
SeasonRefOk(rows) ==
    \A r \in rows : \E q \in seasons : q.season_id = r.season_id

\* primary key (season_id, team_id) of teams
TeamsKeyOk(rows) ==
    /\ \A r \in rows : \A q \in teams :
          ~(q.season_id = r.season_id /\ q.team_id = r.team_id)
    /\ \A r, q \in rows :
          (r.season_id = q.season_id /\ r.team_id = q.team_id) => r = q

----------------------------------------------------------------------------
(* The scripts.  One object runs at a time, from "idle" to "done"; a       *)
(* raised exception ends the script where it is, with the connection as it *)
(* was.  After "done" the process exits and another script may start.      *)

Raise(e) == pc' = "done" /\ exc' = e /\ UNCHANGED con

Init ==
    /\ api \in ApiResponses
    /\ today \in TodayOptions
    /\ tables = <<>>
    /\ seasons = {} /\ teams = {} /\ schedule = <<>> /\ scores = <<>>
    /\ pc = "idle" /\ con = "none" /\ exc = "none"
    /\ season_list = <<>> /\ idx = 0
    /\ games_filtered = <<>> /\ games_stored = {}
    /\ http = <<>>
    /\ obj = "none" /\ caller = "run"
    /\ first_run = <<>>
    /\ season = 0 /\ mod_path = "" /\ stan_ok = FALSE
    /\ files = {} /\ df = <<>> /\ fit = <<>> /\ est = <<>> /\ plot = {}

\* Initializer(db_path).run(): connect, then the first statement is next.
InitializerRun ==
    /\ pc = "idle"
    /\ pc' = "Initializer._seasons"
    /\ con' = "open" /\ exc' = "none"
    /\ obj' = "Initializer" /\ caller' = "run"
    /\ UNCHANGED <<api, today, dbvars, ingvars, modvars>>

\* One "create table" statement of the Initializer, then on to `next`.
CreateTable(at, t, refs, next) ==
    /\ pc = at
    /\ con = "open"
    /\ IF CanCreate(t, refs)
       THEN /\ tables' = Append(tables, t)
            /\ pc' = next
            /\ UNCHANGED <<con, exc>>
       ELSE /\ Raise("CatalogException")
            /\ UNCHANGED tables
    /\ UNCHANGED <<api, today, seasons, teams, schedule, scores, who, ingvars, modvars>>

Initializer_seasons ==
    CreateTable("Initializer._seasons", "seasons", {}, "Initializer._teams")

Initializer_teams ==
    CreateTable("Initializer._teams", "teams", {"seasons"}, "Initializer._schedule")

Initializer_schedule ==
    CreateTable("Initializer._schedule", "schedule", {"seasons"}, "Initializer._score")

\* A run that leaves _score out.
Initializer_score_skipped ==
    /\ pc = "Initializer._score"
    /\ pc' = "Initializer._close_con"
    /\ UNCHANGED <<api, today, dbvars, con, exc, who, ingvars, modvars>>

Initializer_score ==
    CreateTable("Initializer._score", "scores", {}, "Initializer._close_con")

Initializer_close_con ==
    /\ pc = "Initializer._close_con"
    /\ con' = "closed"
    /\ pc' = "done"
    /\ UNCHANGED <<api, today, dbvars, exc, who, ingvars, modvars>>

----------------------------------------------------------------------------
(* Ingestor.                                                               *)

Request(endpoint, param) == [endpoint |-> endpoint, param |-> param]

\* Where a for loop over `list` goes after position i: its next element, or
\* the statement after the loop.
LoopNext(list, i, loop, after) ==
    IF i < Len(list) THEN pc' = loop /\ idx' = i + 1
    ELSE pc' = after /\ idx' = 0

\* A run that calls _teams before _season.
RunOrder_teamsFirst ==
    << "Ingestor._teams", "Ingestor._season", "Ingestor._schedule",
       "Ingestor._score", "Ingestor._close_con" >>

\* Ingestor.run: the methods it calls, in order.
RunOrder ==
    << "Ingestor._season", "Ingestor._teams", "Ingestor._schedule",
       "Ingestor._score", "Ingestor._close_con" >>

\* The statement of run that follows the call of method m.
After(m) ==
    LET k == CHOOSE j \in 1..Len(RunOrder) : RunOrder[j] = m
    IN  RunOrder[k + 1]

\* Ingestor(db_path).run(): connect, then the first method is next.
IngestorRun ==
    /\ pc = "idle"
    /\ pc' = RunOrder[1]
    /\ con' = "open" /\ exc' = "none"
    /\ obj' = "Ingestor" /\ caller' = "run"
    /\ http' = <<>> /\ season_list' = <<>> /\ idx' = 0
    /\ games_filtered' = <<>> /\ games_stored' = {}
    /\ UNCHANGED <<api, today, dbvars, first_run, modvars>>

\* The row of table seasons made of one season of the response.
SeasonRow(y) ==
    [ season_id            |-> ApiSeason(y).seasonId,
      regular_season_start |-> ApiSeason(y).regularSeasonStartDate,
      regular_season_end   |-> ApiSeason(y).regularSeasonEndDate ]

\* Ingestor._season: one request, one insert of every season of the response.
Ingestor_season ==
    /\ pc = "Ingestor._season"
    /\ con = "open"
    /\ http' = Append(http, Request("seasons", <<>>))
    /\ LET rows == {SeasonRow(y) : y \in api.seasons}
       IN  IF ~Exists("seasons")
           THEN Raise("CatalogException") /\ UNCHANGED seasons
           ELSE IF ~SeasonsKeyOk(rows)
           THEN Raise("ConstraintException") /\ UNCHANGED seasons
           ELSE /\ seasons' = seasons \cup rows
                /\ pc' = After("Ingestor._season")
                /\ UNCHANGED <<con, exc>>
    /\ UNCHANGED <<api, today, tables, teams, schedule, scores, who,
                   season_list, idx, games_filtered, games_stored, first_run, modvars>>

\* Ingestor._list_seasons: "select distinct season_id from seasons", in
\* whatever order the engine returns the rows.
ListSeasons == Orders({r.season_id : r \in seasons})

\* Ingestor._teams up to its loop.
Ingestor_teams ==
    /\ pc = "Ingestor._teams"
    /\ con = "open"
    /\ \E l \in ListSeasons :
          /\ season_list' = l
          /\ LoopNext(l, 0, "Ingestor._teams.for", After("Ingestor._teams"))
    /\ UNCHANGED <<api, today, dbvars, con, exc, who,
                   games_filtered, games_stored, http, first_run, modvars>>

\* The row of table teams made of one team of the response.
TeamRow(t) ==
    [ season_id |-> IntToStr(t.season),
      team_id   |-> IntToStr(t.id),
      team_abbr |-> t.abbreviation ]

\* One pass of the loop of Ingestor._teams: request, insert.
Ingestor_teams_for ==
    /\ pc = "Ingestor._teams.for"
    /\ con = "open"
    /\ LET i    == season_list[idx]
           rows == {TeamRow(t) : t \in api.teams[StrToInt(i)]}
       IN  /\ http' = Append(http, Request("teams", i))
           /\ IF ~Exists("teams")
              THEN Raise("CatalogException") /\ UNCHANGED <<teams, idx>>
              ELSE IF ~(TeamsKeyOk(rows) /\ SeasonRefOk(rows))
              THEN Raise("ConstraintException") /\ UNCHANGED <<teams, idx>>
              ELSE /\ teams' = teams \cup rows
                   /\ LoopNext(season_list, idx, "Ingestor._teams.for",
                               After("Ingestor._teams"))
                   /\ UNCHANGED <<con, exc>>
    /\ UNCHANGED <<api, today, tables, seasons, schedule, scores, who,
                   season_list, games_filtered, games_stored, first_run, modvars>>

\* Ingestor._schedule up to its loop.
Ingestor_schedule ==
    /\ pc = "Ingestor._schedule"
    /\ con = "open"
    /\ \E l \in ListSeasons :
          /\ season_list' = l
          /\ LoopNext(l, 0, "Ingestor._schedule.for", After("Ingestor._schedule"))
    /\ UNCHANGED <<api, today, dbvars, con, exc, who,
                   games_filtered, games_stored, http, first_run, modvars>>

\* The row of table schedule made of one game of the response.
ScheduleRow(g) ==
    [ season_id |-> g.season,
      game_date |-> g.date,
      game_id   |-> IntToStr(g.gamePk),
      away_team |-> IntToStr(g.away),
      home_team |-> IntToStr(g.home) ]

ScheduleRows(resp) == [k \in 1..Len(resp) |-> ScheduleRow(resp[k])]

\* A handler that leaves the loop.
OnSchemaError_break ==
    /\ pc' = After("Ingestor._schedule") /\ idx' = 0
    /\ UNCHANGED <<schedule, con, exc>>

\* except pl.exceptions.SchemaError: continue
OnSchemaError ==
    /\ LoopNext(season_list, idx, "Ingestor._schedule.for", After("Ingestor._schedule"))
    /\ UNCHANGED <<schedule, con, exc>>

\* One pass of the loop of Ingestor._schedule: request, then inside the try
\* the data frame (SchemaError for a response without dates: continue) and
\* the insert.
Ingestor_schedule_for ==
    /\ pc = "Ingestor._schedule.for"
    /\ con = "open"
    /\ LET i    == season_list[idx]
           resp == api.schedule[StrToInt(i)]
           rows == ScheduleRows(resp)
       IN  /\ http' = Append(http, Request("schedule", i))
           /\ IF resp = <<>>
              THEN OnSchemaError
              ELSE IF ~Exists("schedule")
              THEN Raise("CatalogException") /\ UNCHANGED <<schedule, idx>>
              ELSE IF ~SeasonRefOk(Range(rows))
              THEN Raise("ConstraintException") /\ UNCHANGED <<schedule, idx>>
              ELSE /\ schedule' = schedule \o rows
                   /\ LoopNext(season_list, idx, "Ingestor._schedule.for",
                               After("Ingestor._schedule"))
                   /\ UNCHANGED <<con, exc>>
    /\ UNCHANGED <<api, today, tables, seasons, teams, scores, who,
                   season_list, games_filtered, games_stored, first_run, modvars>>

\* The same clause without the condition on the season.
InScope_allSeasons(r) ==
    /\ DateLE(r.game_date, today)
    /\ \E q \in seasons :
          /\ q.season_id = r.season_id
          /\ DateLE(q.regular_season_start, r.game_date)
          /\ DateLE(r.game_date, q.regular_season_end)

\* The where clause of the games query of _score, on a schedule row joined
\* (left join) to the seasons row of its season_id.
InScope(r) ==
    /\ DateLE(r.game_date, today)
    /\ StrToInt(r.season_id) >= FirstScoredSeason
    /\ \E q \in seasons :
          /\ q.season_id = r.season_id
          /\ DateLE(q.regular_season_start, r.game_date)
          /\ DateLE(r.game_date, q.regular_season_end)

\* The games dated before today only.
Games_before ==
    LET Before(r) == InScope(r) /\ r.game_date # today
        rows == SelectSeq(schedule, Before)
    IN  [k \in 1..Len(rows) |-> rows[k].game_id]

\* games: the game_id of every schedule row in scope, in table order.
Games ==
    LET rows == SelectSeq(schedule, InScope)
    IN  [k \in 1..Len(rows) |-> rows[k].game_id]

\* games_stored: the game_id column of scores.
GamesStored == {scores[k].game_id : k \in 1..Len(scores)}

\* A filter that keeps every game.
GamesFiltered_all(games, stored) == games

\* games_filtered = [x for x in games if x not in games_stored]
GamesFiltered(games, stored) ==
    LET NotStored(x) == x \notin stored
    IN  SelectSeq(games, NotStored)

\* What follows _score: _close_con in run, nothing for a call of its own.
AfterScore == IF caller = "run" THEN After("Ingestor._score") ELSE "done"

\* Ingestor(db_path)._score() called on its own.
IngestorScoreCall ==
    /\ pc = "idle"
    /\ pc' = "Ingestor._score"
    /\ con' = "open" /\ exc' = "none"
    /\ obj' = "Ingestor" /\ caller' = "direct"
    /\ http' = <<>> /\ season_list' = <<>> /\ idx' = 0
    /\ games_filtered' = <<>> /\ games_stored' = {}
    /\ UNCHANGED <<api, today, dbvars, first_run, modvars>>

\* Ingestor._score up to its loop: the two queries and the filter.
Ingestor_score ==
    /\ pc = "Ingestor._score"
    /\ con = "open"
    /\ IF ~(Exists("schedule") /\ Exists("seasons") /\ Exists("scores"))
       THEN /\ Raise("CatalogException")
            /\ UNCHANGED <<games_filtered, games_stored, idx>>
       ELSE /\ games_stored' = GamesStored
            /\ games_filtered' = GamesFiltered(Games, GamesStored)
            /\ LoopNext(games_filtered', 0, "Ingestor._score.for", AfterScore)
            /\ UNCHANGED <<con, exc>>
    /\ UNCHANGED <<api, today, dbvars, who, season_list, http, first_run, modvars>>

\* The row that "insert into scores values ({i}, {home}, {away})" adds: the
\* game id is written as a number and stored as a varchar.
ScoreRow(i, score) ==
    [ game_id   |-> IntToStr(StrToInt(i)),
      home_runs |-> score.home.runs,
      away_runs |-> score.away.runs ]

\* The statement does not bind when a value is written as None, which is
\* what .get("runs") gives when the key is missing.
Binds(score) == "runs" \in DOMAIN score.home /\ "runs" \in DOMAIN score.away

\* A handler that leaves the loop.
OnBinderError_break ==
    /\ pc' = AfterScore /\ idx' = 0
    /\ UNCHANGED scores

\* except db.duckdb.BinderException: continue
OnBinderError ==
    /\ LoopNext(games_filtered, idx, "Ingestor._score.for", AfterScore)
    /\ UNCHANGED scores

\* One pass of the loop of Ingestor._score: request, then inside the try the
\* insert (BinderException: continue).
Ingestor_score_for ==
    /\ pc = "Ingestor._score.for"
    /\ con = "open"
    /\ LET i     == games_filtered[idx]
           score == LineScore(StrToInt(i))
       IN  /\ http' = Append(http, Request("game_linescore", i))
           /\ IF ~Binds(score)
              THEN OnBinderError
              ELSE /\ scores' = Append(scores, ScoreRow(i, score))
                   /\ LoopNext(games_filtered, idx, "Ingestor._score.for", AfterScore)
    /\ UNCHANGED <<api, today, tables, seasons, teams, schedule, con, exc, who,
                   season_list, games_filtered, games_stored, first_run, modvars>>

\* The rows of the four tables.
Rows == [seasons |-> seasons, teams |-> teams, schedule |-> schedule, scores |-> scores]

\* Ingestor._close_con, the last statement of run.
Ingestor_close_con ==
    /\ pc = "Ingestor._close_con"
    /\ con' = "closed"
    /\ pc' = "done"
    /\ first_run' = IF first_run = <<>> THEN <<Rows>> ELSE first_run
    /\ UNCHANGED <<api, today, dbvars, exc, who,
                   season_list, idx, games_filtered, games_stored, http, modvars>>

----------------------------------------------------------------------------
(* Model: the queries.                                                     *)

\* "J": 30 of the data handed to the sampler.
J == 30

\* season_id like '%{self.season}%'
SeasonLike(season_id) == LikeContains(season_id, IntToStr(season))

\* row_number() over (order by ...) of a row, `before` being the rows that
\* sort before it (no two rows of one season share a team_id).
RowNumber(before) == 1 + Cardinality(before)

\* Some order of the rows of a set.
SetToSeq(S) == CHOOSE s \in Orders(S) : TRUE

\* A select without distinct.
Distinct_kept(s) == s

\* select distinct *: the rows without their repetitions.
RECURSIVE Distinct(_)
Distinct(s) ==
    IF s = <<>> THEN <<>>
    ELSE LET rest == Distinct(SubSeq(s, 1, Len(s) - 1))
             last == s[Len(s)]
         IN  IF last \in Range(rest) THEN rest ELSE Append(rest, last)

\* L cross join R: every pair <<l, r>>, in the order of L, then of R.  A
\* join keeps the pairs its condition accepts; a left join followed by
\* "where <column of R> not null" keeps the same pairs.
Cross(L, R) ==
    LET n == Len(R)
    IN  [k \in 1..(Len(L) * n) |-> <<L[((k - 1) \div n) + 1], R[((k - 1) % n) + 1]>>]

\* cte b of _stanify_data: row_number() over (order by team_id).
StanifyTeams ==
    LET rows == {t \in teams : SeasonLike(t.season_id)}
        Before(q, r) == StrLess(q.team_id, r.team_id)
    IN  { [team_id |-> StrToInt(t.team_id), const_id |-> RowNumber({q \in rows : Before(q, t)})]
          : t \in rows }

\* cte a of _stanify_data.
StanifyGames ==
    LET On(p)  == p[1].game_id = p[2].game_id /\ SeasonLike(p[2].season_id)
        Row(p) == [ game_id   |-> p[1].game_id,
                    away_team |-> StrToInt(p[2].away_team),
                    home_team |-> StrToInt(p[2].home_team),
                    away_runs |-> p[1].away_runs,
                    home_runs |-> p[1].home_runs ]
        hits   == SelectSeq(Cross(scores, schedule), On)
    IN  [k \in 1..Len(hits) |-> Row(hits[k])]

HomeWin(home_runs, away_runs) == IF home_runs > away_runs THEN 1 ELSE 0

HomeOrd(home_runs, away_runs) ==
    LET diff == home_runs - away_runs
    IN  CASE diff < -4        -> 1
          [] diff \in (-4)..(-1) -> 2
          [] diff = 0         -> 3
          [] diff \in 1..4    -> 4
          [] diff > 4         -> 5

\* The query of _stanify_data: ctes c and d and the final select distinct.
StanifyQuery ==
    LET b == SetToSeq(StanifyTeams)
        OnAway(p) == p[1].away_team = p[2].team_id
        RowC(p)   == [p[1] EXCEPT !.away_team = p[2].const_id]
        hitsC     == SelectSeq(Cross(StanifyGames, b), OnAway)
        c         == [k \in 1..Len(hitsC) |-> RowC(hitsC[k])]
        OnHome(p) == p[1].home_team = p[2].team_id
        RowD(p)   == [ game_id   |-> p[1].game_id,
                       away_team |-> p[1].away_team,
                       home_team |-> p[2].const_id,
                       home_win  |-> HomeWin(p[1].home_runs, p[1].away_runs),
                       home_ord  |-> HomeOrd(p[1].home_runs, p[1].away_runs) ]
        hitsD     == SelectSeq(Cross(c, b), OnHome)
        d         == [k \in 1..Len(hitsD) |-> RowD(hitsD[k])]
    IN  Distinct(d)

KnownPaths == {"./mlbpred/bt.stan", "./mlbpred/bt_home.stan", "./mlbpred/bt_mag.stan"}

\* Model.__init__: mod_name, set for the three known paths only.
ModName(path) ==
    CASE path = "./mlbpred/bt.stan"      -> "btl"
      [] path = "./mlbpred/bt_home.stan" -> "home"
      [] path = "./mlbpred/bt_mag.stan"  -> "mag"

\* The dictionary written to ./data/mod_data.json.
ModData(rows, mod_name) ==
    [ N |-> Len(rows),
      J |-> J,
      X |-> [k \in 1..Len(rows) |-> <<rows[k].home_team, rows[k].away_team>>],
      y |-> [k \in 1..Len(rows) |->
                IF mod_name # "mag" THEN rows[k].home_win ELSE rows[k].home_ord] ]

\* Names of parameters and of the columns of an array, as strings.
Chars_rank   == <<114, 97, 110, 107>>
RankName(k)  == Chars_rank \o <<91>> \o IntToStr(k) \o <<93>>
AlphaName(k) == <<97, 108, 112, 104, 97, 91>> \o IntToStr(k) \o <<93>>
Chars_lp     == <<108, 112, 95, 95>>
ColumnName(j) == <<99, 111, 108, 117, 109, 110>> \o IntToStr(j)

\* regexp_extract(s, '\d+'): the first run of digits of s.
FirstDigits(s) ==
    LET digits == {i \in 1..Len(s) : s[i] < 10}
    IN  IF digits = {} THEN <<>>
        ELSE LET a == CHOOSE i \in digits : \A j \in digits : i <= j
                 b == CHOOSE i \in a..Len(s) :
                        /\ \A j \in a..i : j \in digits
                        /\ (i + 1) \notin digits
             IN  SubSeq(s, a, b)

\* What the sampler may answer: fit.summary(), one row per parameter with
\* its percentiles.  The ranks rise with the index, fall with it, or are
\* close enough for teams to share a median or a 5% percentile.
SummaryRow(name, low, mid, high) ==
    [name |-> name, p5 |-> low, p50 |-> mid, p95 |-> high]
FitSummaries ==
    { {SummaryRow(RankName(k), k, k, k + 1) : k \in 1..J}
        \cup {SummaryRow(AlphaName(1), 0, 0, 0), SummaryRow(Chars_lp, 0, 0, 0)},
      {SummaryRow(RankName(k), J - k, J + 1 - k, J + 1 - k) : k \in 1..J}
        \cup {SummaryRow(AlphaName(1), 0, 0, 0), SummaryRow(Chars_lp, 0, 0, 0)},
      {SummaryRow(RankName(k), IF k % 3 = 0 THEN 0 ELSE 1, 2,
                               IF k % 3 = 2 THEN 2 ELSE 3) : k \in 1..J}
        \cup {SummaryRow(AlphaName(1), 0, 0, 0), SummaryRow(Chars_lp, 0, 0, 0)} }

\* The same cte with the teams numbered in the order of the integer team_id.
EstimatesTeams_byInteger ==
    LET rows == {t \in teams : SeasonLike(t.season_id)}
        Before(q, r) == StrToInt(q.team_id) < StrToInt(r.team_id)
    IN  { [ team_id   |-> StrToInt(t.team_id),
            team_abbr |-> t.team_abbr,
            const_id  |-> RowNumber({q \in rows : Before(q, t)}) ] : t \in rows }

\* cte b of _get_estimates: row_number() over (order by team_id, team_abbr).
EstimatesTeams ==
    LET rows == {t \in teams : SeasonLike(t.season_id)}
        Before(q, r) ==
            \/ StrLess(q.team_id, r.team_id)
            \/ (q.team_id = r.team_id /\ StrLess(q.team_abbr, r.team_abbr))
    IN  { [ team_id   |-> StrToInt(t.team_id),
            team_abbr |-> t.team_abbr,
            const_id  |-> RowNumber({q \in rows : Before(q, t)}) ] : t \in rows }

\* An order by median alone.
EstimateLE_median(q, r) == q.median <= r.median

\* The rows of "order by median, ci_low, ci_high asc".
EstimateLE(q, r) ==
    \/ q.median < r.median
    \/ (q.median = r.median /\ q.ci_low < r.ci_low)
    \/ (q.median = r.median /\ q.ci_low = r.ci_low /\ q.ci_high <= r.ci_high)

\* The query of _get_estimates: the orders in which its rows may be written.
EstimatesQuery(summary) ==
    LET a == { [ team_id |-> FirstDigits(r.name), ci_low |-> r.p5,
                 median  |-> r.p50, ci_high |-> r.p95 ]
               : r \in {q \in summary : LikeContains(q.name, Chars_rank)} }
        c == { [ team_abbr |-> t.team_abbr, team_id |-> r.team_id,
                 ci_low |-> r.ci_low, median |-> r.median, ci_high |-> r.ci_high ]
               : <<r, t>> \in {p \in a \X EstimatesTeams :
                                 StrToInt(p[1].team_id) = p[2].const_id} }
    IN  {s \in Orders(c) : \A i, j \in 1..Len(s) : i < j => EstimateLE(s[i], s[j])}

\* fit.stan_variable("rank").T as the query sees it: column j holds the
\* draws of rank[j + 1] (one draw here, the median).
Draws(summary) ==
    { [team |-> ColumnName(k - 1), ranks |-> r.p50]
      : <<k, r>> \in {p \in (1..J) \X summary : p[2].name = RankName(p[1])} }

\* cte c of _get_plot_data: row_number() over (order by team_id, team_abbr).
PlotTeams ==
    LET rows == {t \in teams : SeasonLike(t.season_id)}
        Before(q, r) ==
            \/ StrLess(q.team_id, r.team_id)
            \/ (q.team_id = r.team_id /\ StrLess(q.team_abbr, r.team_abbr))
    IN  { [ team_id   |-> StrToInt(t.team_id),
            team_abbr |-> t.team_abbr,
            const_id  |-> RowNumber({q \in rows : Before(q, t)}) ] : t \in rows }

\* The query of _get_plot_data: every draw, left joined to its team (team is
\* <<>> where the join finds none).
PlotQuery(summary) ==
    LET b == { [const_id |-> StrToInt(FirstDigits(r.team)) + 1, ranks |-> r.ranks]
               : r \in Draws(summary) }
        Found(r) == {t \in PlotTeams : t.const_id = r.const_id}
    IN  UNION { IF Found(r) = {}
                THEN {[const_id |-> r.const_id, team |-> <<>>, ranks |-> r.ranks]}
                ELSE {[const_id |-> r.const_id,
                       team |-> <<[team_id |-> t.team_id, team_abbr |-> t.team_abbr]>>,
                       ranks |-> r.ranks] : t \in Found(r)}
              : r \in b }

----------------------------------------------------------------------------
(* Model: the script.                                                      *)

ModelSeasons == UNION SeasonsResponses
ModelPaths   == KnownPaths \cup {"./mlbpred/btl_mag.stan"}

\* A run that reads the estimates before the model is fitted.
ModelRunOrder_estimatesFirst ==
    << "Model._stanify_data", "Model._compile", "Model._get_estimates",
       "Model._fit_model", "Model._plot_estimates", "done" >>

\* Model.run: the methods it calls, in order, and then its return.
ModelRunOrder ==
    << "Model._stanify_data", "Model._compile", "Model._fit_model",
       "Model._get_estimates", "Model._plot_estimates", "done" >>

\* The statement of run that follows the call of method m.
ModelAfter(m) ==
    LET k == CHOOSE j \in 1..Len(ModelRunOrder) : ModelRunOrder[j] = m
    IN  ModelRunOrder[k + 1]

\* Model(season=s, mod_path=p).run(): connect, then the first method is next.
ModelRun ==
    /\ pc = "idle"
    /\ \E s \in ModelSeasons, p \in ModelPaths, ok \in BOOLEAN :
          season' = s /\ mod_path' = p /\ stan_ok' = ok
    /\ pc' = ModelRunOrder[1]
    /\ con' = "open" /\ exc' = "none"
    /\ obj' = "Model" /\ caller' = "run"
    /\ UNCHANGED <<api, today, dbvars, ingvars, files, df, fit, est, plot>>

\* Model._stanify_data: the query, then the dictionary (which reads
\* self.mod_name), then the file.
Model_stanify_data ==
    /\ pc = "Model._stanify_data"
    /\ IF ~(Exists("scores") /\ Exists("schedule") /\ Exists("teams"))
       THEN Raise("CatalogException") /\ UNCHANGED <<df, files>>
       ELSE /\ df' = StanifyQuery
            /\ IF mod_path \notin KnownPaths
               THEN Raise("AttributeError") /\ UNCHANGED files
               ELSE /\ files' = files \cup {"./data/mod_data.json"}
                    /\ pc' = ModelAfter("Model._stanify_data")
                    /\ UNCHANGED <<con, exc>>
    /\ UNCHANGED <<api, today, dbvars, who, ingvars,
                   season, mod_path, stan_ok, fit, est, plot>>

\* The exception of the engine, not caught.
CompileError_engine == "ValueError"

\* What the caller of _compile sees when CmdStanModel raises ValueError.
CompileError == "FileNotFoundError"

\* Model._compile.
Model_compile ==
    /\ pc = "Model._compile"
    /\ IF stan_ok
       THEN pc' = ModelAfter("Model._compile") /\ UNCHANGED <<con, exc>>
       ELSE Raise(CompileError)
    /\ UNCHANGED <<api, today, dbvars, who, ingvars, modvars>>

\* Model._fit_model: the sampler runs on the data file.
Model_fit_model ==
    /\ pc = "Model._fit_model"
    /\ \E summary \in FitSummaries : fit' = <<summary>>
    /\ pc' = ModelAfter("Model._fit_model")
    /\ UNCHANGED <<api, today, dbvars, con, exc, who, ingvars,
                   season, mod_path, stan_ok, files, df, est, plot>>

\* Model._get_estimates: the query on self.fit.summary() (AttributeError
\* when no fit was assigned), copied to the CSV file.
Model_get_estimates ==
    /\ pc = "Model._get_estimates"
    /\ IF fit = <<>>
       THEN Raise("AttributeError") /\ UNCHANGED <<est, files>>
       ELSE /\ est' \in EstimatesQuery(fit[1])
            /\ files' = files \cup {"estimates.csv"}
            /\ pc' = ModelAfter("Model._get_estimates")
            /\ UNCHANGED <<con, exc>>
    /\ UNCHANGED <<api, today, dbvars, who, ingvars,
                   season, mod_path, stan_ok, df, fit, plot>>

\* Model._plot_estimates: _get_plot_data on self.fit (AttributeError when
\* no fit was assigned), then the figure is saved.
Model_plot_estimates ==
    /\ pc = "Model._plot_estimates"
    /\ IF fit = <<>>
       THEN Raise("AttributeError") /\ UNCHANGED <<plot, files>>
       ELSE /\ plot' = PlotQuery(fit[1])
            /\ files' = files \cup {"plot.svg"}
            /\ pc' = ModelAfter("Model._plot_estimates")
            /\ UNCHANGED <<con, exc>>
    /\ UNCHANGED <<api, today, dbvars, who, ingvars,
                   season, mod_path, stan_ok, df, fit, est>>

\* The process of a script that has stopped ends; its objects are gone.
Exit ==
    /\ pc = "done"
    /\ pc' = "idle" /\ con' = "none" /\ exc' = "none"
    /\ obj' = "none" /\ caller' = "run"
    /\ season_list' = <<>> /\ idx' = 0
    /\ games_filtered' = <<>> /\ games_stored' = {}
    /\ http' = <<>>
    /\ season' = 0 /\ mod_path' = "" /\ stan_ok' = FALSE
    /\ files' = {} /\ df' = <<>> /\ fit' = <<>> /\ est' = <<>> /\ plot' = {}
    /\ UNCHANGED <<api, today, dbvars, first_run>>

----------------------------------------------------------------------------
Next ==
    \/ InitializerRun
    \/ Initializer_seasons
    \/ Initializer_teams
    \/ Initializer_schedule
    \/ Initializer_score
    \/ Initializer_close_con
    \/ IngestorRun
    \/ Ingestor_season
    \/ Ingestor_teams
    \/ Ingestor_teams_for
    \/ Ingestor_schedule
    \/ Ingestor_schedule_for
    \/ IngestorScoreCall
    \/ Ingestor_score
    \/ Ingestor_score_for
    \/ Ingestor_close_con
    \/ ModelRun
    \/ Model_stanify_data
    \/ Model_compile
    \/ Model_fit_model
    \/ Model_get_estimates
    \/ Model_plot_estimates
    \/ Exit

Spec == Init /\ [][Next]_vars

----------------------------------------------------------------------------
(* The claims.                                                             *)

IngestorRunStopped == pc = "done" /\ obj = "Ingestor" /\ caller = "run"

\* The requests of the running call to one endpoint, as positions of http.
Requests(endpoint) == {k \in 1..Len(http) : http[k].endpoint = endpoint}

\* C1: ingestion is idempotent: an Ingestor.run that stops on a database
\* that a completed Ingestor.run has filled has raised nothing and has left
\* the four tables with the rows the first run left.
C1_Idempotent ==
    (IngestorRunStopped /\ first_run # <<>>) =>
        (exc = "none" /\ Rows = first_run[1])

\* C2: _score requests the box score of no game whose game_id was in scores
\* when the call started.
C2_NoStoredGameRequested ==
    (obj = "Ingestor") =>
        \A k \in Requests("game_linescore") : http[k].param \notin games_stored

\* C2 witness: a call of _score that found stored games and made requests.
C2_Witness ==
    /\ obj = "Ingestor" /\ pc = "done"
    /\ games_stored # {}
    /\ Requests("game_linescore") # {}

\* C3: every row of teams and every row of schedule has the season_id of a
\* row of seasons.
C3_SeasonForeignKeys ==
    /\ \A t \in teams : \E q \in seasons : q.season_id = t.season_id
    /\ \A k \in 1..Len(schedule) :
          \E q \in seasons : q.season_id = schedule[k].season_id

\* C3 witness: teams and schedule hold rows, and an insert was refused.
C3_Witness ==
    /\ teams # {} /\ schedule # <<>>
    /\ pc = "done" /\ obj = "Ingestor" /\ exc = "ConstraintException"

\* The position of table t in the order of creation.
Created(t) == CHOOSE k \in 1..Len(tables) : tables[k] = t

\* C4: an Initializer.run that ran on an empty database has created the
\* four tables and no other, each empty, seasons before teams and schedule.
C4_InitializerCreatesFour ==
    (pc = "done" /\ obj = "Initializer" /\ exc = "none") =>
        /\ Len(tables) = Cardinality(TableNames)
        /\ Range(tables) = TableNames
        /\ seasons = {} /\ teams = {} /\ schedule = <<>> /\ scores = <<>>
        /\ Created("seasons") < Created("teams")
        /\ Created("seasons") < Created("schedule")

\* C4 witness: an Initializer.run has returned.
C4_Witness ==
    pc = "done" /\ obj = "Initializer" /\ exc = "none" /\ con = "closed"

\* C5: in Ingestor.run the first request is the seasons request; a teams,
\* schedule or box-score request is made only with the rows of the seasons
\* response stored; every teams and schedule request is for a season_id of
\* the seasons table (rows are never deleted, so of the table at the time
\* of the request); a box score is requested only after the schedule step
\* has made its request for every season, and no schedule request follows.
C5_SeasonsFirst ==
    (obj = "Ingestor" /\ caller = "run") =>
        /\ http # <<>> => http[1].endpoint = "seasons"
        /\ (\E k \in 1..Len(http) : http[k].endpoint # "seasons") =>
              {SeasonRow(y) : y \in api.seasons} \subseteq seasons
        /\ \A k \in Requests("teams") \cup Requests("schedule") :
              \E q \in seasons : q.season_id = http[k].param
        /\ Requests("game_linescore") # {} =>
              /\ pc \in {"Ingestor._score.for", "Ingestor._close_con", "done"}
              /\ \A q \in seasons :
                    \E k \in Requests("schedule") : http[k].param = q.season_id
              /\ \A j \in Requests("game_linescore") :
                    \A k \in 1..Len(http) :
                        http[k].endpoint # "game_linescore" => k < j

\* C5 witness: a run that has requested teams, schedules and box scores.
C5_Witness ==
    /\ IngestorRunStopped /\ exc = "none"
    /\ Requests("teams") # {} /\ Requests("schedule") # {}
    /\ Requests("game_linescore") # {}

\* The model data of the running Model.run has been written.
DataWritten == obj = "Model" /\ "./data/mod_data.json" \in files

\* The teams of the season of the Model, and whether a team id is one.
SeasonTeams == {t \in teams : t.season_id = IntToStr(season)}
InSeason(team_id) == \E t \in SeasonTeams : t.team_id = team_id

\* The schedule rows of the season whose game has a score and whose two
\* teams are teams of the season.
InputRows ==
    { k \in 1..Len(schedule) :
        /\ schedule[k].season_id = IntToStr(season)
        /\ schedule[k].game_id \in GamesStored
        /\ InSeason(schedule[k].home_team)
        /\ InSeason(schedule[k].away_team) }

\* The index (const_id) that _stanify_data gives to the team of a team id.
TeamIndex(team_id) ==
    (CHOOSE t \in StanifyTeams : t.team_id = StrToInt(team_id)).const_id

\* C6: the model input of season S has one row for every game that has a
\* score and a schedule row of season S with both teams in teams of season
\* S, no two rows for one game and no other row; a row holds the index of
\* the home team, the index of the away team and the outcome of its game.
C6_OneRowPerGame ==
    DataWritten =>
        LET data == ModData(df, ModName(mod_path))
        IN  /\ {df[k].game_id : k \in 1..Len(df)}
                 = {schedule[k].game_id : k \in InputRows}
            /\ \A j, k \in 1..Len(df) : df[j].game_id = df[k].game_id => j = k
            /\ data.N = Cardinality({schedule[k].game_id : k \in InputRows})
            /\ \A k \in 1..Len(df) :
                  \E i \in InputRows, n \in 1..Len(scores) :
                      /\ schedule[i].game_id = df[k].game_id
                      /\ scores[n].game_id = df[k].game_id
                      /\ data.X[k] = << TeamIndex(schedule[i].home_team),
                                        TeamIndex(schedule[i].away_team) >>
                      /\ df[k].home_win = 1 <=> scores[n].home_runs > scores[n].away_runs
                      /\ df[k].home_win = 0 <=> scores[n].home_runs <= scores[n].away_runs
                      /\ data.y[k] = IF mod_path = "./mlbpred/bt_mag.stan"
                                     THEN df[k].home_ord ELSE df[k].home_win
                      /\ df[k].home_ord \in 1..5

\* C6 witness: the data of a season with two games, one of them twice in
\* schedule and in scores, and with games that are left out.
C6_Witness ==
    /\ DataWritten
    /\ Len(df) = 2
    /\ \E j, k \in InputRows : j # k /\ schedule[j].game_id = schedule[k].game_id
    /\ \E k \in 1..Len(schedule) :
          schedule[k].game_id \in GamesStored /\ k \notin InputRows

\* The abbreviation in table teams of the team that _stanify_data gave the
\* index k, if there is one.
IndexedAbbr(k) ==
    { t.team_abbr : t \in { q \in SeasonTeams :
        [team_id |-> StrToInt(q.team_id), const_id |-> k] \in StanifyTeams } }

\* C7: the team named beside rank k in the estimates CSV and in the plot
\* data is the team that _stanify_data gave the index k, for every k.
C7_SameTeamIndex ==
    /\ (obj = "Model" /\ "estimates.csv" \in files) =>
          /\ \A i \in 1..Len(est) :
                est[i].team_abbr \in IndexedAbbr(StrToInt(est[i].team_id))
          /\ \A k \in 1..J : IndexedAbbr(k) # {} =>
                \E i \in 1..Len(est) : StrToInt(est[i].team_id) = k
    /\ (obj = "Model" /\ "plot.svg" \in files) =>
          /\ \A r \in plot :
                IF r.team = <<>> THEN IndexedAbbr(r.const_id) = {}
                ELSE /\ r.team[1].team_abbr \in IndexedAbbr(r.const_id)
                     /\ [team_id |-> r.team[1].team_id, const_id |-> r.const_id]
                            \in StanifyTeams
          /\ \A k \in 1..J : \E r \in plot : r.const_id = k

\* C7 witness: estimates and plot data of a season with its three teams.
C7_Witness ==
    /\ obj = "Model" /\ pc = "done" /\ exc = "none"
    /\ Len(est) = Cardinality(TeamIds)
    /\ Cardinality({r \in plot : r.team # <<>>}) = Cardinality(TeamIds)

\* C8: when the engine does not accept the stan file, the exception of
\* _compile is FileNotFoundError and never ValueError, and Model.run has
\* no fit, no estimates CSV and no plot.
C8_InvalidStanFile ==
    (obj = "Model" /\ ~stan_ok) =>
        /\ exc # "ValueError"
        /\ (pc = "done" /\ DataWritten) => exc = "FileNotFoundError"
        /\ pc \notin {"Model._fit_model", "Model._get_estimates", "Model._plot_estimates"}
        /\ fit = <<>>
        /\ "estimates.csv" \notin files /\ "plot.svg" \notin files
        /\ est = <<>> /\ plot = {}

\* C8 witness: _compile has raised in Model.run.
C8_Witness ==
    /\ obj = "Model" /\ ~stan_ok /\ pc = "done"
    /\ DataWritten /\ exc = "FileNotFoundError"

\* C9: when Initializer.run or Ingestor.run has stopped, by returning or by
\* an exception, its connection is closed.
C9_ClosedWhenStopped ==
    (pc = "done" /\ obj \in {"Initializer", "Ingestor"} /\ caller = "run") =>
        con = "closed"

\* The response of the schedule endpoint for a season_id.
ScheduleResponse(season_id) == api.schedule[StrToInt(season_id)]

\* How many seasons of season_list the loop of _schedule has gone through.
Processed ==
    IF pc = "Ingestor._schedule.for" THEN idx - 1
    ELSE IF \/ pc \in {"Ingestor._score", "Ingestor._score.for", "Ingestor._close_con"}
            \/ (pc = "done" /\ exc = "none")
         THEN Len(season_list)
         ELSE 0

\* C10: a season whose schedule response has no dates does not stop the
\* loop of _schedule and adds no row; every season the loop has gone
\* through had its request, and the rows of its response are in schedule.
C10_EmptySeasonSkipped ==
    (obj = "Ingestor") =>
        /\ exc # "SchemaError"
        /\ \A j \in 1..Processed :
              LET resp == ScheduleResponse(season_list[j])
              IN  /\ \E k \in Requests("schedule") : http[k].param = season_list[j]
                  /\ resp = <<>> =>
                        \A k \in 1..Len(schedule) :
                            schedule[k].season_id # season_list[j]
                  /\ \A n \in 1..Len(resp) :
                        ScheduleRow(resp[n]) \in Range(schedule)

\* C10 witness: the loop is over, the first season of the list had no
\* dates and the rows of the second are in schedule.
C10_Witness ==
    /\ obj = "Ingestor" /\ pc = "Ingestor._score"
    /\ Len(season_list) = 2
    /\ ScheduleResponse(season_list[1]) = <<>>
    /\ ScheduleResponse(season_list[2]) # <<>>
    /\ schedule = ScheduleRows(ScheduleResponse(season_list[2]))

\* How many games of games_filtered the loop of _score has gone through.
ScorePasses ==
    IF pc = "Ingestor._score.for" THEN idx - 1
    ELSE IF pc = "Ingestor._close_con" \/ (pc = "done" /\ exc = "none")
         THEN Len(games_filtered)
         ELSE 0

\* The box-score requests of the running call, in the order they were made.
ScoreRequests ==
    LET IsScore(r) == r.endpoint = "game_linescore"
    IN  SelectSeq(http, IsScore)

\* Whether the insert of the box score of game i is rejected.
Rejected(i) == ~Binds(LineScore(StrToInt(i)))

\* C11: a pass of the loop of _score whose insert is rejected with a
\* BinderException adds no row to scores, raises nothing and goes on to the
\* next game of the list; every pass leaves the rows already in scores as
\* they were; and every game the loop has gone through was requested, in
\* the order of the list, and is stored if its insert was accepted.
C11_RejectedGameSkipped ==
    [][ (pc = "Ingestor._score.for") =>
          /\ SubSeq(scores', 1, Len(scores)) = scores
          /\ Rejected(games_filtered[idx]) => scores' = scores
          /\ exc' = "none"
          /\ games_filtered' = games_filtered
          /\ idx < Len(games_filtered) =>
                (pc' = "Ingestor._score.for" /\ idx' = idx + 1)
          /\ \A j \in 1..idx :
                /\ Len(ScoreRequests') >= j
                /\ ScoreRequests'[j].param = games_filtered[j]
                /\ ~Rejected(games_filtered[j]) =>
                      \E n \in 1..Len(scores') :
                          scores'[n] = ScoreRow(games_filtered[j],
                                                LineScore(StrToInt(games_filtered[j])))
      ]_vars

\* C11 witness: a call of _score is over in which a game was stored, a
\* later game was rejected and a game after that one was stored.
C11_Witness ==
    /\ obj = "Ingestor" /\ ScorePasses = Len(games_filtered)
    /\ pc # "Ingestor._score.for"
    /\ \E i, j, k \in 1..Len(games_filtered) :
          /\ i < j /\ j < k
          /\ ~Rejected(games_filtered[i])
          /\ Rejected(games_filtered[j])
          /\ ~Rejected(games_filtered[k])
          /\ Len(ScoreRequests) = Len(games_filtered)
          /\ \E n \in 1..Len(scores) :
                scores[n].game_id = games_filtered[k]
          /\ \A n \in 1..Len(scores) :
                scores[n].game_id # games_filtered[j]

\* A call of _score has completed: run is at or past _close_con, or the
\* call made on its own has returned.
ScoreCompleted ==
    /\ obj = "Ingestor"
    /\ pc = "Ingestor._close_con" \/ (pc = "done" /\ exc = "none")

\* The seasons row of a schedule row (season_id is the key of seasons).
SeasonOf(r) == {q \in seasons : q.season_id = r.season_id}

\* A schedule row of a regular-season game of 2019 or later, played today
\* or earlier.
Eligible(r) ==
    /\ StrToInt(r.season_id) >= FirstScoredSeason
    /\ DateLE(r.game_date, today)
    /\ \A q \in SeasonOf(r) :
          DateLE(q.regular_season_start, r.game_date)
            /\ DateLE(r.game_date, q.regular_season_end)
    /\ SeasonOf(r) # {}

\* C12: when _score has completed, every schedule game of the regular
\* season of 2019 or later, dated today or earlier, whose box-score insert
\* is accepted has a row in scores, with the runs of its box score.
C12_EligibleGamesStored ==
    ScoreCompleted =>
        \A k \in 1..Len(schedule) :
            (Eligible(schedule[k]) /\ ~Rejected(schedule[k].game_id)) =>
                \E n \in 1..Len(scores) :
                    /\ scores[n].game_id = schedule[k].game_id
                    /\ scores[n].home_runs
                          = LineScore(StrToInt(schedule[k].game_id)).home.runs
                    /\ scores[n].away_runs
                          = LineScore(StrToInt(schedule[k].game_id)).away.runs

\* C12 witness: _score has completed after storing box scores, one of them
\* of a game dated today, with a rejected game and a game out of scope
\* left without a row.
C12_Witness ==
    /\ ScoreCompleted
    /\ ScoreRequests # <<>>
    /\ \E k \in 1..Len(schedule) :
          /\ Eligible(schedule[k]) /\ ~Rejected(schedule[k].game_id)
          /\ schedule[k].game_date = today
          /\ schedule[k].game_id \in GamesStored
    /\ \E k \in 1..Len(schedule) :
          Eligible(schedule[k]) /\ Rejected(schedule[k].game_id)
    /\ \E k \in 1..Len(schedule) :
          ~Eligible(schedule[k]) /\ schedule[k].game_id \notin GamesStored

\* The estimates CSV of the running Model.run has been written.
EstimatesWritten == obj = "Model" /\ "estimates.csv" \in files

\* The rows of the fit summary for the rank of the team given index k.
RankOf(k) == {r \in fit[1] : r.name = RankName(k)}

\* The teams of the season whose rank is in the fit summary.
RankedTeams == {t \in SeasonTeams : RankOf(TeamIndex(t.team_id)) # {}}

\* C13: the estimates CSV has one row for every team of the season whose
\* rank is in the fit summary and no other row; the row holds the
\* abbreviation of the team and the 5%, 50% and 95% percentiles of its rank
\* as ci_low, median and ci_high; the rows are in ascending order of
\* median, then of ci_low, then of ci_high.
C13_EstimatesRows ==
    EstimatesWritten =>
        /\ Len(est) = Cardinality(RankedTeams)
        /\ \A t \in RankedTeams :
              \E i \in 1..Len(est) :
                  /\ StrToInt(est[i].team_id) = TeamIndex(t.team_id)
                  /\ est[i].team_abbr = t.team_abbr
                  /\ \A r \in RankOf(TeamIndex(t.team_id)) :
                        /\ est[i].ci_low = r.p5
                        /\ est[i].median = r.p50
                        /\ est[i].ci_high = r.p95
        /\ \A i, j \in 1..Len(est) :
              i < j =>
                \/ est[i].median < est[j].median
                \/ /\ est[i].median = est[j].median
                   /\ est[i].ci_low < est[j].ci_low
                \/ /\ est[i].median = est[j].median
                   /\ est[i].ci_low = est[j].ci_low
                   /\ est[i].ci_high <= est[j].ci_high

\* C13 witness: a CSV of three teams in which the median does not decide
\* the order: two rows differ in ci_low only, two in ci_high only.
C13_Witness ==
    /\ EstimatesWritten
    /\ Len(est) = Cardinality(TeamIds)
    /\ est[1].median = est[2].median /\ est[1].ci_low < est[2].ci_low
    /\ est[2].median = est[3].median /\ est[2].ci_low = est[3].ci_low
    /\ est[2].ci_high < est[3].ci_high

\* The requests of the running call to one endpoint with one parameter.
RequestsFor(endpoint, param) ==
    {k \in Requests(endpoint) : http[k].param = param}

\* An Ingestor.run has returned.
IngestorRunReturned == IngestorRunStopped /\ exc = "none"

\* Ingestor.run makes at most one seasons request, and has made one when
\* it returns.
OneSeasonsCall ==
    /\ Cardinality(Requests("seasons")) <= 1
    /\ IngestorRunReturned => Cardinality(Requests("seasons")) = 1

\* Ingestor.run makes teams and schedule requests for season_ids of seasons
\* only, at most one of each for a season_id, and has made one of each for
\* every season_id of seasons when it returns.
OneCallPerSeason ==
    \A endpoint \in {"teams", "schedule"} :
        /\ \A k \in Requests(endpoint) :
              /\ \E q \in seasons : q.season_id = http[k].param
              /\ RequestsFor(endpoint, http[k].param) = {k}
        /\ IngestorRunReturned =>
              \A q \in seasons : RequestsFor(endpoint, q.season_id) # {}

\* Ingestor.run makes at most one box-score request for a game id.
OneCallPerGame ==
    \A k \in Requests("game_linescore") :
        RequestsFor("game_linescore", http[k].param) = {k}

\* C14: one Ingestor.run makes exactly one seasons request, exactly one
\* teams request and one schedule request for every season_id of seasons,
\* and at most one box-score request for a game id.
C14_OneCallPerEntity ==
    (obj = "Ingestor" /\ caller = "run") =>
        (OneSeasonsCall /\ OneCallPerSeason /\ OneCallPerGame)

\* The game ids the running call has requested a box score for.
RequestedGames == {http[k].param : k \in Requests("game_linescore")}

\* The game ids of the eligible schedule rows that were not in scores when
\* _score began.
WantedGames ==
    {schedule[k].game_id : k \in {n \in 1..Len(schedule) : Eligible(schedule[n])}}
        \ games_stored

\* C15: _score requests a box score only for game ids of schedule rows of
\* season 2019 or later, dated today or earlier and from the start to the
\* end of the regular season of their season (both days included), that
\* were not in scores; when it has completed it has requested every one.
C15_RequestedGames ==
    (obj = "Ingestor") =>
        /\ RequestedGames \subseteq WantedGames
        /\ ScoreCompleted => RequestedGames = WantedGames

\* C15 witness: _score has completed with requests made, among them games
\* of the first and of the last day of a regular season, and has requested
\* no game of a pre-season row, of a post-season row or of a future row.
C15_Witness ==
    /\ ScoreCompleted /\ RequestedGames # {}
    /\ \E k \in 1..Len(schedule), q \in seasons :
          /\ q.season_id = schedule[k].season_id
          /\ schedule[k].game_date = q.regular_season_start
          /\ schedule[k].game_id \in RequestedGames
    /\ \E k \in 1..Len(schedule), q \in seasons :
          /\ q.season_id = schedule[k].season_id
          /\ schedule[k].game_date = q.regular_season_end
          /\ schedule[k].game_id \in RequestedGames
    /\ \E k \in 1..Len(schedule), q \in seasons :
          /\ q.season_id = schedule[k].season_id
          /\ ~DateLE(q.regular_season_start, schedule[k].game_date)
          /\ schedule[k].game_id \notin RequestedGames
    /\ \E k \in 1..Len(schedule), q \in seasons :
          /\ q.season_id = schedule[k].season_id
          /\ ~DateLE(schedule[k].game_date, q.regular_season_end)
          /\ DateLE(schedule[k].game_date, today)
          /\ schedule[k].game_id \notin RequestedGames
    /\ \E k \in 1..Len(schedule) :
          /\ ~DateLE(schedule[k].game_date, today)
          /\ schedule[k].game_id \notin RequestedGames

\* The methods of Model.run in the order of the claim.
ModelSteps ==
    << "Model._stanify_data", "Model._compile", "Model._fit_model",
       "Model._get_estimates", "Model._plot_estimates" >>

\* What Model.run has left when it is at a given point: a fit only with
\* the data of its season written and the stan file compiled, the CSV only
\* with a fit, the plot only with the CSV; nothing after a raising step.
ModelOutputsInOrder ==
    /\ fit # <<>> => (DataWritten /\ df = StanifyQuery /\ stan_ok)
    /\ "estimates.csv" \in files => fit # <<>>
    /\ "plot.svg" \in files => "estimates.csv" \in files
    /\ exc # "none" =>
          /\ pc = "done"
          /\ fit = <<>>
          /\ "estimates.csv" \notin files /\ "plot.svg" \notin files

\* C16: Model.run calls _stanify_data, _compile, _fit_model, _get_estimates
\* and _plot_estimates in that order, each one only when the one before it
\* has returned without raising; the fit starts with the data file of the
\* season written and the model compiled; the estimates CSV and the plot
\* are written only with a fit; after a step that raises no other step of
\* the run is taken.
C16_StepsInOrder ==
    [][ /\ (obj' = "Model") =>
              /\ pc' = ModelSteps[1] => pc = "idle"
              /\ \A k \in 2..Len(ModelSteps) :
                    pc' = ModelSteps[k] =>
                        (pc = ModelSteps[k - 1] /\ exc' = "none")
              /\ pc' = "Model._fit_model" =>
                    (DataWritten /\ df = StanifyQuery /\ stan_ok)
        /\ (obj = "Model") =>
              /\ ModelOutputsInOrder
              /\ exc # "none" => pc' = "idle"
      ]_vars

\* C16 witness: a Model.run has returned with the data file, the fit, the
\* estimates CSV and the plot.
C16_Witness ==
    /\ obj = "Model" /\ pc = "done" /\ exc = "none"
    /\ DataWritten /\ df = StanifyQuery /\ fit # <<>>
    /\ "estimates.csv" \in files /\ "plot.svg" \in files

====
